---- MODULE Spec2Model ----
(***************************************************************************)
(* A model of bin/hff.py: a filesystem emulated on a flat, versioned key   *)
(* store (path normalisation, directory markers, collision suffixes, glob  *)
(* matching, the ls/mkdir/rm/mv/put/get commands and the snapshot          *)
(* create/list/show/get/destroy commands), and the window between the      *)
(* listing and the commit of two mv invocations that run at the same time. *)
(*                                                                         *)
(* A Python str is modelled as a sequence of one-character strings, so     *)
(* that strip, replace, startswith, split and concatenation are computed   *)
(* as the code computes them.                                              *)
(***************************************************************************)
EXTENDS Integers, Sequences, FiniteSets, TLC

VARIABLES store, last, prev, ncmds, fnArg, fnRet, fnDone, now, created, proc, nExt

vars == <<store, last, prev, ncmds, fnArg, fnRet, fnDone, now, created, proc, nExt>>

(***************************************************************************)
(* Bounds of the model.                                                    *)
(***************************************************************************)
\* longest input string given to normalize_path in SpecNorm
MaxLen == 4
\* number of command invocations in one behaviour of Spec
MaxCmds == 2
\* number of __dupN candidates that may already be taken in SpecUnique
MaxDup == 3
\* number of snapshot command invocations in one behaviour of SpecSnap
MaxSnapCmds == 3
\* the last clock second that SpecSnap and SpecSnapId reach
MaxClock == 1
\* number of mutations by another client of the store in one behaviour of SpecRace
MaxExternal == 1

(***************************************************************************)
(* Strings.                                                                *)
(***************************************************************************)
SL == "/"
BS == "\\"
WS == " "
DOT == "."

\* str.startswith(prefix)
StartsWith(s, pre) ==
    /\ Len(pre) <= Len(s)
    /\ SubSeq(s, 1, Len(pre)) = pre

\* str.endswith(suffix)
EndsWith(s, suf) ==
    /\ Len(suf) <= Len(s)
    /\ SubSeq(s, Len(s) - Len(suf) + 1, Len(s)) = suf

\* s[n:]
DropFirst(s, n) == SubSeq(s, n + 1, Len(s))

\* ch in s
Contains(s, ch) == \E i \in 1..Len(s) : s[i] = ch

\* str.lstrip(ch): every leading ch removed
RECURSIVE LStripCh(_, _)
LStripCh(s, ch) ==
    IF Len(s) > 0 /\ s[1] = ch THEN LStripCh(Tail(s), ch) ELSE s

\* str.rstrip(ch): every trailing ch removed
RECURSIVE RStripCh(_, _)
RStripCh(s, ch) ==
    IF Len(s) > 0 /\ s[Len(s)] = ch
    THEN RStripCh(SubSeq(s, 1, Len(s) - 1), ch)
    ELSE s

\* str.strip(ch)
StripCh(s, ch) == RStripCh(LStripCh(s, ch), ch)

\* str.strip(): whitespace removed at both ends
StripWS(s) == StripCh(s, WS)

\* str.replace(old, new) for single characters
ReplaceCh(s, old, new) == [i \in 1..Len(s) |-> IF s[i] = old THEN new ELSE s[i]]

\* while p.startswith("./"): p = p[2:]
RECURSIVE DropDotSlash(_)
DropDotSlash(s) ==
    IF StartsWith(s, <<DOT, SL>>) THEN DropDotSlash(DropFirst(s, 2)) ELSE s

NormalizeNoFinalStrip(p) ==
    DropDotSlash(ReplaceCh(LStripCh(StripWS(p), SL), BS, SL))

\* normalize_path(p)
normalize_path(p) ==
    StripCh(DropDotSlash(ReplaceCh(LStripCh(StripWS(p), SL), BS, SL)), SL)

\* printable ASCII characters in code-point order (Python compares str by
\* code point); the double quote and the backquote are left out
AsciiOrder ==
    <<" ", "!", "#", "$", "%", "&", "'", "(", ")", "*", "+", ",", "-",
      ".", "/", "0", "1", "2", "3", "4", "5", "6", "7", "8", "9", ":", ";",
      "<", "=", ">", "?", "@", "A", "B", "C", "D", "E", "F", "G", "H", "I",
      "J", "K", "L", "M", "N", "O", "P", "Q", "R", "S", "T", "U", "V", "W",
      "X", "Y", "Z", "[", "\\", "]", "^", "_", "a", "b", "c", "d", "e",
      "f", "g", "h", "i", "j", "k", "l", "m", "n", "o", "p", "q", "r", "s",
      "t", "u", "v", "w", "x", "y", "z", "{", "|", "}", "~">>

Ord(c) == CHOOSE i \in 1..Len(AsciiOrder) : AsciiOrder[i] = c

\* a < b for str
StrLess(a, b) ==
    LET n == IF Len(a) < Len(b) THEN Len(a) ELSE Len(b)
        diff == {i \in 1..n : a[i] # b[i]}
    IN  IF diff = {}
        THEN Len(a) < Len(b)
        ELSE LET k == CHOOSE i \in diff : \A j \in diff : i <= j
             IN  Ord(a[k]) < Ord(b[k])

\* sorted(S) for a set of str
RECURSIVE Sorted(_)
Sorted(S) ==
    IF S = {} THEN <<>>
    ELSE LET m == CHOOSE x \in S : \A y \in S : x = y \/ StrLess(x, y)
         IN  <<m>> \o Sorted(S \ {m})

\* sorted(S, reverse=True)
SortedDesc(S) ==
    LET asc == Sorted(S)
    IN  [i \in 1..Len(asc) |-> asc[Len(asc) + 1 - i]]

\* index of the first ch in s, 0 when there is none
FirstIndex(s, ch) ==
    IF Contains(s, ch)
    THEN CHOOSE i \in 1..Len(s) : s[i] = ch /\ \A j \in 1..(i - 1) : s[j] # ch
    ELSE 0

\* index of the last ch in s, 0 when there is none
LastIndex(s, ch) ==
    IF Contains(s, ch)
    THEN CHOOSE i \in 1..Len(s) : s[i] = ch /\ \A j \in (i + 1)..Len(s) : s[j] # ch
    ELSE 0

\* s.split("/"): the segments between slashes
RECURSIVE Split(_)
Split(s) ==
    LET i == FirstIndex(s, SL)
    IN  IF i = 0 THEN <<s>>
        ELSE <<SubSeq(s, 1, i - 1)>> \o Split(DropFirst(s, i))

\* str(i) for i >= 0: decimal digits
Digits == <<"0", "1", "2", "3", "4", "5", "6", "7", "8", "9">>

RECURSIVE IntToStr(_)
IntToStr(i) ==
    IF i < 10 THEN <<Digits[i + 1]>>
    ELSE IntToStr(i \div 10) \o <<Digits[(i % 10) + 1]>>

GITKEEP == <<".", "g", "i", "t", "k", "e", "e", "p">>
DUP == <<"_", "_", "d", "u", "p">>

\* parent_dir(path)
parent_dir(path) ==
    LET p == normalize_path(path)
        i == LastIndex(p, SL)
    IN  IF i = 0 THEN <<>> ELSE SubSeq(p, 1, i - 1)

\* has_glob(s)
has_glob(s) == \E ch \in {"*", "?", "["} : Contains(s, ch)

\* pathlib.Path(p).name: the last path component, "." and empty components
\* dropped
PathName(p) ==
    LET segs == SelectSeq(Split(p), LAMBDA g : g # <<>> /\ g # <<DOT>>)
    IN  IF segs = <<>> THEN <<>> ELSE segs[Len(segs)]

(***************************************************************************)
(* Commit operations: Add(key, bytes), Delete(key), Copy(from, to).        *)
(***************************************************************************)
_make_add_op(path, content) ==
    [op |-> "Add", key |-> path, src |-> <<>>, content |-> content]

_make_delete_op(path) ==
    [op |-> "Delete", key |-> path, src |-> <<>>, content |-> <<>>]

_make_copy_op(src, dst) ==
    [op |-> "Copy", key |-> dst, src |-> src, content |-> <<>>]

EnsureDirAlwaysAdds(existing, dir_path) ==
    LET d == normalize_path(dir_path)
        keep == d \o <<SL>> \o GITKEEP
    IN  IF d = <<>>
        THEN [ops |-> <<>>, existing |-> existing]
        ELSE [ops |-> <<_make_add_op(keep, <<>>)>>, existing |-> existing \cup {keep}]

\* ensure_dir_ops(existing, dir_path): the operations, and `existing` as the
\* call leaves it
ensure_dir_ops(existing, dir_path) ==
    LET d == normalize_path(dir_path)
        keep == d \o <<SL>> \o GITKEEP
    IN  IF d = <<>>
        THEN [ops |-> <<>>, existing |-> existing]
        ELSE IF keep \notin existing
             THEN [ops |-> <<_make_add_op(keep, <<>>)>>,
                   existing |-> existing \cup {keep}]
             ELSE [ops |-> <<>>, existing |-> existing]

RECURSIVE UniqueFrom(_, _, _)
UniqueFrom(dest, existing, i) ==
    LET cand == dest \o DUP \o IntToStr(i)
    IN  IF cand \notin existing THEN cand ELSE UniqueFrom(dest, existing, i + 1)

UniqueDestNoCheck(dest, existing) == dest

UniqueDestAlwaysDup1(dest, existing) ==
    IF dest \notin existing THEN dest ELSE dest \o DUP \o IntToStr(1)

\* unique_dest(dest, existing)
unique_dest(dest, existing) ==
    IF dest \notin existing THEN dest ELSE UniqueFrom(dest, existing, 1)

(***************************************************************************)
(* Glob matching and directory listing.                                    *)
(***************************************************************************)
\* the index of the "]" that closes the class opened at p[1] = "[", 0 when
\* the "[" is literal (fnmatch.translate)
ClassEnd(p) ==
    LET j0 == IF Len(p) >= 2 /\ p[2] = "!" THEN 3 ELSE 2
        j1 == IF Len(p) >= j0 /\ p[j0] = "]" THEN j0 + 1 ELSE j0
        closing == {j \in j1..Len(p) : p[j] = "]"}
    IN  IF closing = {} THEN 0
        ELSE CHOOSE j \in closing : \A k \in closing : j <= k

\* whether character c is in the class p[1..e] = "[" stuff "]"
InClass(c, p, e) ==
    LET neg == p[2] = "!"
        stuff == SubSeq(p, IF neg THEN 3 ELSE 2, e - 1)
        n == Len(stuff)
        hit == \/ \E i \in 1..n :
                     /\ stuff[i] = c
                     /\ ~(stuff[i] = "-" /\ 1 < i /\ i < n)
               \/ \E i \in 1..(n - 2) :
                     /\ stuff[i + 1] = "-"
                     /\ Ord(stuff[i]) <= Ord(c)
                     /\ Ord(c) <= Ord(stuff[i + 2])
    IN  IF neg THEN ~hit ELSE hit

RECURSIVE FnmatchStarStopsAtSlash(_, _)
FnmatchStarStopsAtSlash(s, p) ==
    IF p = <<>> THEN s = <<>>
    ELSE IF p[1] = "*"
         THEN \E k \in 0..Len(s) :
                 /\ ~Contains(SubSeq(s, 1, k), SL)
                 /\ FnmatchStarStopsAtSlash(DropFirst(s, k), Tail(p))
    ELSE IF p[1] = "?"
         THEN Len(s) > 0 /\ FnmatchStarStopsAtSlash(Tail(s), Tail(p))
    ELSE IF p[1] = "[" /\ ClassEnd(p) # 0
         THEN /\ Len(s) > 0
              /\ InClass(s[1], p, ClassEnd(p))
              /\ FnmatchStarStopsAtSlash(Tail(s), DropFirst(p, ClassEnd(p)))
    ELSE Len(s) > 0 /\ s[1] = p[1] /\ FnmatchStarStopsAtSlash(Tail(s), Tail(p))

\* fnmatchcase(name, pat)
RECURSIVE fnmatchcase(_, _)
fnmatchcase(s, p) ==
    IF p = <<>> THEN s = <<>>
    ELSE IF p[1] = "*"
         THEN \E k \in 0..Len(s) : fnmatchcase(DropFirst(s, k), Tail(p))
    ELSE IF p[1] = "?"
         THEN Len(s) > 0 /\ fnmatchcase(Tail(s), Tail(p))
    ELSE IF p[1] = "[" /\ ClassEnd(p) # 0
         THEN /\ Len(s) > 0
              /\ InClass(s[1], p, ClassEnd(p))
              /\ fnmatchcase(Tail(s), DropFirst(p, ClassEnd(p)))
    ELSE Len(s) > 0 /\ s[1] = p[1] /\ fnmatchcase(Tail(s), Tail(p))

\* match_glob(files, pattern)
match_glob(files, pattern) ==
    LET pat == normalize_path(pattern)
    IN  Sorted({f \in files : fnmatchcase(f, pat)})

\* the first path segment of rest, with "/" appended when more follows
FirstChild(rest) ==
    LET i == FirstIndex(rest, SL)
    IN  IF i = 0 THEN rest ELSE SubSeq(rest, 1, i)

\* list_children(files, base_path)
list_children(files, base_path) ==
    LET path == normalize_path(base_path)
        prefix == RStripCh(path, SL) \o <<SL>>
        kids == {f \in files : StartsWith(f, prefix)}
    IN  IF path = <<>>
        THEN Sorted({FirstChild(f) : f \in files})
        ELSE Sorted({FirstChild(DropFirst(f, Len(prefix))) :
                        f \in {k \in kids : Len(k) > Len(prefix)}})

(***************************************************************************)
(* The backend: the store maps each key to its content; a commit applies   *)
(* all of its operations or none.                                          *)
(***************************************************************************)
Indices(ops) == 1..Len(ops)

WrittenKeys(ops) == {ops[i].key : i \in {j \in Indices(ops) : ops[j].op \in {"Add", "Copy"}}}

DeletedKeys(ops) == {ops[i].key : i \in {j \in Indices(ops) : ops[j].op = "Delete"}}

\* the backend rejects a commit that deletes or copies a key it does not hold
CommitValid(st, ops) ==
    \A i \in Indices(ops) :
        /\ ops[i].op = "Delete" => ops[i].key \in DOMAIN st
        /\ ops[i].op = "Copy" => ops[i].src \in DOMAIN st

\* what the commit leaves at key k, which one of its operations writes
WrittenContent(st, ops, k) ==
    LET w == {i \in Indices(ops) : ops[i].op \in {"Add", "Copy"} /\ ops[i].key = k}
        i == CHOOSE x \in w : \A y \in w : y <= x
    IN  IF ops[i].op = "Add" THEN ops[i].content ELSE st[ops[i].src]

\* a backend that applies the operations it can and skips the others
CreateCommitSkipsMissing(st, ops) ==
    LET can == SelectSeq(ops, LAMBDA o : (IF o.op = "Copy" THEN o.src ELSE o.key) \in DOMAIN st
                                          \/ o.op = "Add")
    IN  [k \in (DOMAIN st \ DeletedKeys(can)) \cup WrittenKeys(can) |->
            IF k \in WrittenKeys(can) THEN WrittenContent(st, can, k) ELSE st[k]]

\* HfApi.create_commit(operations=ops) on store st
create_commit(st, ops) ==
    IF ~CommitValid(st, ops) THEN st
    ELSE [k \in (DOMAIN st \ DeletedKeys(ops)) \cup WrittenKeys(ops) |->
            IF k \in WrittenKeys(ops) THEN WrittenContent(st, ops, k) ELSE st[k]]

\* the transfers of one invocation, in order, stopping at the first rejection
RECURSIVE RunCommits(_, _, _)
RunCommits(st, commits, i) ==
    IF i > Len(commits) THEN [store |-> st, ok |-> TRUE]
    ELSE IF ~CommitValid(st, commits[i]) THEN [store |-> st, ok |-> FALSE]
    ELSE RunCommits(create_commit(st, commits[i]), commits, i + 1)

(***************************************************************************)
(* The commands.  Each takes its arguments and the listing it read         *)
(* (list_files) and gives the commits it issues, in order, its exit code   *)
(* and what it prints.                                                     *)
(***************************************************************************)
Outcome(commits, exit, msg, paths, n) ==
    [commits |-> commits, exit |-> exit, msg |-> msg, paths |-> paths, n |-> n]

\* die(msg, code)
die(msg, code) == Outcome(<<>>, code, msg, <<>>, 0)

\* cmd_mkdir
cmd_mkdir(path, files) ==
    LET d == normalize_path(path)
        ops == ensure_dir_ops(files, d).ops
    IN  IF d = <<>> THEN die("mkdir: path is empty", 2)
        ELSE IF ops = <<>> THEN Outcome(<<>>, 0, "exists", <<>>, 0)
        ELSE Outcome(<<ops>>, 0, "ok", <<>>, 0)

DeleteOps(targets) == [i \in 1..Len(targets) |-> _make_delete_op(targets[i])]

RmDryRunStillCommits(path, dry_run, files) ==
    LET p == normalize_path(StripWS(path))
        targets == IF has_glob(p) THEN match_glob(files, p) ELSE <<p>>
    IN  IF p = <<>> THEN die("rm: path is empty", 2)
        ELSE IF ~has_glob(p) /\ p \notin files THEN die("rm: not found", 1)
        ELSE IF targets = <<>> THEN die("rm: nothing matched", 1)
        ELSE Outcome(<<DeleteOps(targets)>>, 0, "ok", IF dry_run THEN targets ELSE <<>>, 0)

\* cmd_rm; list_files is taken in sorted order
cmd_rm(path, dry_run, files) ==
    LET raw == StripWS(path)
        p == normalize_path(raw)
        pref == RStripCh(p, SL) \o <<SL>>
        targets ==
            IF has_glob(p) THEN match_glob(files, p)
            ELSE IF EndsWith(p, <<SL>>)
                 THEN Sorted({f \in files : StartsWith(f, pref)})
            ELSE <<p>>
    IN  IF p = <<>> THEN die("rm: path is empty", 2)
        ELSE IF ~has_glob(p) /\ ~EndsWith(p, <<SL>>) /\ p \notin files
             THEN die("rm: not found", 1)
        ELSE IF targets = <<>> THEN die("rm: nothing matched", 1)
        ELSE IF dry_run THEN Outcome(<<>>, 0, "", targets, 0)
        ELSE Outcome(<<DeleteOps(targets)>>, 0, "ok", <<>>, 0)

\* _mv_single: the operations of its one commit and the destination it returns
_mv_single(files, src, dst) ==
    LET e == ensure_dir_ops(files, parent_dir(dst))
        dst2 == unique_dest(dst, e.existing)
    IN  [ops |-> e.ops \o <<_make_copy_op(src, dst2), _make_delete_op(src)>>,
         final |-> dst2]

\* the loop of the directory move over matches[i..]; st holds ops, files_set,
\* ensured_dirs and moved
RECURSIVE MvDirLoop(_, _, _, _, _)
MvDirLoop(matches, i, src_prefix, dst_prefix, st) ==
    IF i > Len(matches) THEN st
    ELSE
        LET f == matches[i]
            rel == DropFirst(f, Len(src_prefix))
            new_path == dst_prefix \o rel
            d == normalize_path(parent_dir(new_path))
            skip == d = <<>> \/ d \in st.ensured_dirs
            e == IF skip THEN [ops |-> <<>>, existing |-> st.files_set]
                 ELSE ensure_dir_ops(st.files_set, d)
            new_path2 == unique_dest(new_path, e.existing)
        IN  MvDirLoop(matches, i + 1, src_prefix, dst_prefix,
                [ops |-> st.ops \o e.ops
                            \o <<_make_copy_op(f, new_path2), _make_delete_op(f)>>,
                 files_set |-> e.existing \cup {new_path2},
                 ensured_dirs |-> IF skip THEN st.ensured_dirs
                                  ELSE st.ensured_dirs \cup {d},
                 moved |-> Append(st.moved, new_path2)])

\* cmd_mv
cmd_mv(src_arg, dst_arg, files) ==
    LET src_raw == StripWS(src_arg)
        dst_raw == StripWS(dst_arg)
        src == normalize_path(src_raw)
        dst == normalize_path(dst_raw)
        src_prefix == RStripCh(src, SL) \o <<SL>>
        dst_prefix == RStripCh(dst, SL) \o <<SL>>
        matches == Sorted({f \in files : StartsWith(f, src_prefix)})
        loop == MvDirLoop(matches, 1, src_prefix, dst_prefix,
                    [ops |-> <<>>, files_set |-> files,
                     ensured_dirs |-> {}, moved |-> <<>>])
        dst1 == IF EndsWith(dst, <<SL>>) THEN dst \o PathName(src) ELSE dst
        single == _mv_single(files, src, dst1)
    IN  IF src = <<>> \/ dst = <<>> THEN die("mv: src/dst required", 2)
        ELSE IF EndsWith(src_raw, <<SL>>) \/ EndsWith(src, <<SL>>)
             THEN IF matches = <<>> THEN die("mv: nothing under prefix", 1)
                  ELSE Outcome(<<loop.ops>>, 0, "", <<dst_prefix>>, Len(matches))
        ELSE IF src \notin files THEN die("mv: src not found", 1)
        ELSE Outcome(<<single.ops>>, 0, "", <<single.final>>, 0)

\* the bytes of the local file named name
LocalContent(name) == <<"L", ":">> \o name

\* the upload_file transfers of cmd_put's loop over paths
PutUploads(paths, dst_raw) ==
    [i \in 1..Len(paths) |->
        <<_make_add_op(
            IF EndsWith(dst_raw, <<SL>>)
            THEN RStripCh(dst_raw, SL) \o <<SL>> \o PathName(paths[i])
            ELSE dst_raw,
            LocalContent(paths[i]))>>]

\* cmd_put: raw is the local argument, local_files the files of the working
\* directory, paths the matched files in the order the expansion gave them
cmd_put(raw, local_files, paths, dst_arg, files) ==
    LET dst_raw == normalize_path(dst_arg)
        found == IF has_glob(raw) THEN paths ELSE <<raw>>
        multi == Len(found) > 1
        target_dir == IF EndsWith(dst_raw, <<SL>>) THEN RStripCh(dst_raw, SL)
                      ELSE parent_dir(dst_raw)
        ops == IF target_dir # <<>> THEN ensure_dir_ops(files, target_dir).ops
               ELSE <<>>
        mk == IF ops # <<>> THEN <<ops>> ELSE <<>>
    IN  IF has_glob(raw) /\ paths = <<>> THEN die("put: no files matched", 1)
        ELSE IF ~has_glob(raw) /\ raw \notin local_files
             THEN die("put: local file not found", 1)
        ELSE IF dst_raw = <<>> THEN die("put: dst required", 2)
        ELSE IF multi /\ ~EndsWith(dst_raw, <<SL>>)
             THEN die("put: destination must be a directory", 1)
        ELSE Outcome(mk \o PutUploads(found, dst_raw), 0, "ok", <<>>,
                     IF multi THEN Len(found) ELSE 0)

DELETE == <<"D", "E", "L", "E", "T", "E">>

\* cmd_snapshot_destroy: confirm is the line typed at the prompt
cmd_snapshot_destroy(id, yes, confirm, snapdir, files) ==
    LET pref == RStripCh(normalize_path(snapdir), SL) \o <<SL>>
        targets == Sorted({f \in files : StartsWith(f, pref \o id \o <<DOT>>)})
    IN  IF id = <<>> THEN die("snapshot destroy: id required", 2)
        ELSE IF targets = <<>> THEN die("snapshot destroy: nothing matched", 1)
        ELSE IF ~yes /\ StripWS(confirm) # DELETE THEN die("aborted", 1)
        ELSE Outcome(<<DeleteOps(targets)>>, 0, "ok", <<>>, 0)

\* cmd_ls
cmd_ls(path, files) ==
    LET p == normalize_path(StripWS(path))
        matches == match_glob(files, p)
        children == list_children(files, p)
        prefix == RStripCh(p, SL) \o <<SL>>
    IN  IF p # <<>> /\ has_glob(p)
        THEN IF matches = <<>> THEN Outcome(<<>>, 0, "(empty)", <<>>, 0)
             ELSE Outcome(<<>>, 0, "", matches, 0)
        ELSE IF children = <<>> THEN Outcome(<<>>, 0, "(empty)", <<>>, 0)
        ELSE IF p # <<>>
             THEN Outcome(<<>>, 0, "",
                          [i \in 1..Len(children) |-> prefix \o children[i]], 0)
        ELSE Outcome(<<>>, 0, "", children, 0)

\* cmd_get without an out argument: the download fails when the key is absent
cmd_get(src_arg, files) ==
    LET src == normalize_path(src_arg)
    IN  IF src = <<>> THEN die("get: src required", 2)
        ELSE IF src \notin files THEN die("get: download failed", 1)
        ELSE Outcome(<<>>, 0, "", <<PathName(src)>>, 0)

(***************************************************************************)
(* Snapshots: an archive and its manifest, stored side by side under the   *)
(* snapshot directory.  The bytes of a stored snapshot file are modelled   *)
(* as the tuple <<kind, id, name, items, basename, compress, created>>;    *)
(* `items` stands for the item list and the content of the items archived. *)
(***************************************************************************)
MANIFEST_JSON == <<".", "m", "a", "n", "i", "f", "e", "s", "t", ".", "j", "s", "o", "n">>
TAR == <<".", "t", "a", "r">>
TAR_GZ == <<".", "t", "a", "r", ".", "g", "z">>
DEFAULT_SLUG == <<"s", "n", "a", "p", "s", "h", "o", "t">>
SLUG_MAX == 120

\* str.isalnum() for one ASCII character
IsAlnum(c) ==
    \/ Ord("0") <= Ord(c) /\ Ord(c) <= Ord("9")
    \/ Ord("A") <= Ord(c) /\ Ord(c) <= Ord("Z")
    \/ Ord("a") <= Ord(c) /\ Ord(c) <= Ord("z")

\* str.strip(chars) for a set of characters
RECURSIVE LStripSet(_, _)
LStripSet(s, chars) ==
    IF Len(s) > 0 /\ s[1] \in chars THEN LStripSet(Tail(s), chars) ELSE s

RECURSIVE RStripSet(_, _)
RStripSet(s, chars) ==
    IF Len(s) > 0 /\ s[Len(s)] \in chars
    THEN RStripSet(SubSeq(s, 1, Len(s) - 1), chars)
    ELSE s

StripSet(s, chars) == RStripSet(LStripSet(s, chars), chars)

\* "_".join(s.split()): the words of s joined by "_"
JoinWords(s) ==
    LET w == StripWS(s)
        keep == SelectSeq([i \in 1..Len(w) |-> i],
                          LAMBDA i : w[i] # WS \/ w[i - 1] # WS)
    IN  [k \in 1..Len(keep) |-> IF w[keep[k]] = WS THEN "_" ELSE w[keep[k]]]

\* two decimal digits
Pad2(n) == IF n < 10 THEN <<"0">> \o IntToStr(n) ELSE IntToStr(n)

\* time.strftime("%Y%m%d_%H%M%S") at clock second t of one minute
strftime(t) ==
    <<"2", "0", "2", "6", "1", "1", "0", "6", "_", "1", "2", "0", "0">> \o Pad2(t)

\* the slug of snap_id_from_name
Slug(name) ==
    LET mapped == [i \in 1..Len(name) |->
                      IF IsAlnum(name[i]) \/ name[i] \in {".", "_", "-"}
                      THEN name[i] ELSE "_"]
        slug == JoinWords(StripSet(mapped, {".", "_", "-"}))
    IN  IF slug = <<>> THEN DEFAULT_SLUG
        ELSE SubSeq(slug, 1, IF Len(slug) < SLUG_MAX THEN Len(slug) ELSE SLUG_MAX)

\* snap_id_from_name(name), called at clock second t
snap_id_from_name(name, t) == strftime(t) \o <<"_", "_">> \o Slug(name)

\* the bytes of the archive that tar makes of items
ArchiveBytes(items, compress) == <<"tar", <<>>, <<>>, items, <<>>, compress, <<>>>>

\* the manifest JSON that cmd_snapshot_create writes
ManifestBytes(sid, name, items, basename, compress, t) ==
    <<"manifest", sid, name, items, basename, compress, strftime(t)>>

\* meta.get("tar", {}).get("basename")
TarBasename(bytes) == bytes[5]

\* cmd_snapshot_create, called at clock second t: two uploads, the archive
\* and then the manifest
cmd_snapshot_create(name, items, compress, snapdir, t) ==
    LET sid == snap_id_from_name(name, t)
        tar_name == sid \o (IF compress = "gz" THEN TAR_GZ ELSE TAR)
        manifest_name == sid \o MANIFEST_JSON
        dir == RStripCh(normalize_path(snapdir), SL)
        tar_in_repo == dir \o <<SL>> \o tar_name
        mf_in_repo == dir \o <<SL>> \o manifest_name
    IN  IF name = <<>> THEN die("snapshot create: --name is required", 2)
        ELSE IF items = "" THEN die("snapshot create: provide files/dirs to archive", 2)
        ELSE Outcome(<< <<_make_add_op(tar_in_repo, ArchiveBytes(items, compress))>>,
                        <<_make_add_op(mf_in_repo,
                            ManifestBytes(sid, name, items, tar_name, compress, t))>> >>,
                     0, "", <<sid>>, 0)

\* cmd_snapshot_list
cmd_snapshot_list(snapdir, files) ==
    LET pref == RStripCh(normalize_path(snapdir), SL) \o <<SL>>
        manifests == {f \in files : StartsWith(f, pref) /\ EndsWith(f, MANIFEST_JSON)}
        ids == {SubSeq(PathName(f), 1, Len(PathName(f)) - Len(MANIFEST_JSON)) :
                   f \in manifests}
    IN  Outcome(<<>>, 0, "", SortedDesc(ids), 0)

\* cmd_snapshot_show on store st: prints the manifest text
cmd_snapshot_show(id, snapdir, st) ==
    LET pref == RStripCh(normalize_path(snapdir), SL) \o <<SL>>
        mf == pref \o id \o MANIFEST_JSON
    IN  IF mf \notin DOMAIN st THEN die("snapshot show: manifest not found", 1)
        ELSE Outcome(<<>>, 0, "", <<st[mf]>>, 0)

\* _tar_extract: -xzf for a name ending in .tar.gz, which needs gzip data,
\* -xf otherwise; gives the content extracted
_tar_extract(tar_path, bytes) ==
    [ok |-> /\ bytes[1] = "tar"
            /\ EndsWith(tar_path, TAR_GZ) => bytes[6] = "gz",
     items |-> bytes[4]]

\* cmd_snapshot_get on store st: paths holds the archive key it resolved and
\* the content it extracted
cmd_snapshot_get(id, snapdir, st) ==
    LET pref == RStripCh(normalize_path(snapdir), SL)
        mf == pref \o <<SL>> \o id \o MANIFEST_JSON
        tar_base == TarBasename(st[mf])
        tar_in_repo == pref \o <<SL>> \o tar_base
        x == _tar_extract(tar_in_repo, st[tar_in_repo])
    IN  IF id = <<>> THEN die("snapshot get: id required", 2)
        ELSE IF mf \notin DOMAIN st
             THEN die("snapshot get: could not download manifest", 1)
        ELSE IF tar_base = <<>> THEN die("snapshot get: manifest missing tar.basename", 1)
        ELSE IF tar_in_repo \notin DOMAIN st
             THEN die("snapshot get: could not download tar", 1)
        ELSE IF ~x.ok THEN die("snapshot get: tar extract failed", 1)
        ELSE Outcome(<<>>, 0, "ok", <<tar_in_repo, x.items>>, 0)

(***************************************************************************)
(* Spec: up to MaxCmds command invocations, one after the other, on a      *)
(* store that starts as one of InitStores.  Each invocation lists the      *)
(* store, plans and issues its commits; `last` records the invocation and  *)
(* `prev` the one before it.                                               *)
(***************************************************************************)
J(x, y) == x \o <<SL>> \o y

W_a == <<"a">>
W_b == <<"b">>
W_c == <<"c">>
LOCAL_TXT == <<"l", "o", "c", "a", "l", ".", "t", "x", "t">>
TWO_TXT == <<"t", "w", "o", ".", "t", "x", "t">>
DEEP_TXT == <<"d", "e", "e", "p", ".", "t", "x", "t">>
SUB == <<"s", "u", "b">>
SNAPSHOT == <<"s", "n", "a", "p", "s", "h", "o", "t">>
ID_S1 == <<"s", "1">>
ID_S1X == <<"s", "1", ".", "x">>
ID_S2 == <<"s", "2">>

\* keys of the initial stores
K_ab_keep == J(J(W_a, W_b), GITKEEP)
K_ab_local == J(J(W_a, W_b), LOCAL_TXT)
K_ab_sub_deep == J(J(J(W_a, W_b), SUB), DEEP_TXT)
K_ac_local == J(J(W_a, W_c), LOCAL_TXT)
K_ac_local_dup1 == K_ac_local \o DUP \o <<"1">>
K_s1_tar == J(SNAPSHOT, ID_S1 \o TAR_GZ)
K_s1_manifest == J(SNAPSHOT, ID_S1 \o MANIFEST_JSON)
K_s1x_tar == J(SNAPSHOT, ID_S1X \o TAR)
K_s1x_manifest == J(SNAPSHOT, ID_S1X \o MANIFEST_JSON)

R(n) == <<"r", n>>

EmptyStore == [k \in {} |-> <<>>]

InitStores ==
    { EmptyStore,
      (K_ab_keep :> <<>>) @@ (K_ab_local :> R("1")),
      (K_ab_local :> R("1")) @@ (K_ac_local :> R("2")) @@ (K_ac_local_dup1 :> R("3")),
      (K_ab_keep :> <<>>) @@ (K_ab_local :> R("1")) @@ (K_ab_sub_deep :> R("2"))
          @@ (K_ac_local :> R("3")),
      (K_s1_tar :> R("1")) @@ (K_s1_manifest :> R("2")) @@ (K_s1x_tar :> R("3"))
          @@ (K_s1x_manifest :> R("4")) @@ (K_ab_local :> R("5")) }

\* command-line arguments
P_empty == <<>>
P_ab == J(W_a, W_b)
P_ab_sl == P_ab \o <<SL>>
P_ac == J(W_a, W_c)
P_ac_sl == P_ac \o <<SL>>
P_a_star == J(W_a, <<"*">>)
P_a_dot_b == J(J(W_a, <<DOT>>), W_b)
P_ab_local == K_ab_local
P_ab_local_bs == <<BS>> \o W_a \o <<BS>> \o W_b \o <<BS>> \o LOCAL_TXT
P_ac_local == K_ac_local
P_ac_class == J(P_ac, <<"[", "l", "m", "]", "o", "c", "a", "l", ".", "t", "x", "?">>)
P_zz == <<"z", "z">>
P_slash_ws_slash == <<SL, WS, SL>>
P_a == W_a
P_slash_ws_slash_a == <<SL, WS, SL>> \o W_a
P_star_txt == <<"*", ".", "t", "x", "t">>
P_star_bin == <<"*", ".", "b", "i", "n">>
P_missing == <<"m", "i", "s", "s", "i", "n", "g">>

\* mkdir <path>
MkdirArgs == {P_empty, P_ab, P_ab_sl, P_a_dot_b, P_slash_ws_slash}

\* rm <path> [--dry-run]
RmArgs ==
    { <<P_empty, FALSE>>, <<P_zz, FALSE>>, <<P_ab_local, FALSE>>,
      <<P_ab_sl, FALSE>>, <<P_ab_sl, TRUE>>, <<P_ab_local_bs, TRUE>>,
      <<P_a_star, FALSE>>, <<P_a_star, TRUE>>, <<P_ac_class, FALSE>> }

\* mv <src> <dst>
MvArgs ==
    { <<P_ab_local, P_ac_sl>>, <<P_ab_local, P_ac_local>>,
      <<P_ab_sl, P_ac>>, <<P_ab_sl, P_ab>>, <<P_ac_sl, P_zz>>,
      <<P_zz, P_ac>>, <<P_ab_local, P_empty>> }

\* the files of the local working directory
LocalFiles == {LOCAL_TXT, TWO_TXT}

\* put <local> <dst>
PutArgs ==
    { <<LOCAL_TXT, P_ab_sl>>, <<LOCAL_TXT, P_ab_local>>, <<LOCAL_TXT, LOCAL_TXT>>,
      <<LOCAL_TXT, P_empty>>, <<P_star_txt, P_ab_sl>>, <<P_star_txt, P_ab_local>>,
      <<P_star_bin, P_ab_sl>>, <<P_missing, P_ab_sl>> }

\* snapshot destroy <id> [-y], and the line typed at the prompt
DestroyArgs ==
    { <<P_empty, TRUE, <<>>>>, <<ID_S2, TRUE, <<>>>>, <<ID_S1, TRUE, <<>>>>,
      <<ID_S1, FALSE, DELETE>>, <<ID_S1, FALSE, <<WS>> \o DELETE \o <<WS>>>>,
      <<ID_S1, FALSE, <<"n", "o">>>> }

\* ls [path]
LsArgs == {P_empty, P_a, P_ab, P_ac, P_slash_ws_slash_a}

\* get <src>
GetArgs == {P_ab_local, P_zz}

\* the orders in which a set of strings can be enumerated
Orders(S) ==
    {q \in [1..Cardinality(S) -> S] : \A i, j \in 1..Cardinality(S) : i # j => q[i] # q[j]}

NoCmd ==
    [cmd |-> "none", a1 |-> <<>>, a2 |-> <<>>, flag |-> FALSE, pre |-> EmptyStore,
     commits |-> <<>>, exit |-> 0, msg |-> "", paths |-> <<>>, n |-> 0]

Init ==
    /\ store \in InitStores
    /\ last = NoCmd
    /\ prev = NoCmd
    /\ ncmds = 0
    /\ fnArg = <<>>
    /\ fnRet = <<>>
    /\ fnDone = FALSE
    /\ now = 0
    /\ created = <<>>
    /\ proc = <<>>
    /\ nExt = 0

\* one invocation: the outcome was planned from the listing of `store`, its
\* commits are issued in order, and a rejected commit ends it with exit 1;
\* `created` records what each successful snapshot create printed and was given
RunCmd(cmd, a1, a2, flag, out) ==
    LET r == RunCommits(store, out.commits, 1)
    IN  /\ store' = r.store
        /\ last' = [cmd |-> cmd, a1 |-> a1, a2 |-> a2, flag |-> flag, pre |-> store,
                    commits |-> out.commits,
                    exit |-> IF r.ok THEN out.exit ELSE 1,
                    msg |-> IF r.ok THEN out.msg ELSE "failed",
                    paths |-> IF r.ok THEN out.paths ELSE <<>>,
                    n |-> out.n]
        /\ prev' = last
        /\ ncmds' = ncmds + 1
        /\ created' = IF cmd = "create" /\ r.ok /\ out.exit = 0
                       THEN Append(created, [id |-> out.paths[1], items |-> a2, gz |-> flag])
                       ELSE created
        /\ UNCHANGED <<fnArg, fnRet, fnDone, now, proc, nExt>>

Invoke(cmd, a1, a2, flag, out) ==
    /\ ncmds < MaxCmds
    /\ RunCmd(cmd, a1, a2, flag, out)

Mkdir ==
    \E path \in MkdirArgs :
        Invoke("mkdir", path, <<>>, FALSE, cmd_mkdir(path, DOMAIN store))

Rm ==
    \E a \in RmArgs :
        Invoke("rm", a[1], <<>>, a[2], cmd_rm(a[1], a[2], DOMAIN store))

Mv ==
    \E a \in MvArgs :
        Invoke("mv", a[1], a[2], FALSE, cmd_mv(a[1], a[2], DOMAIN store))

Put ==
    \E a \in PutArgs :
        \E paths \in Orders({f \in LocalFiles : fnmatchcase(f, a[1])}) :
            Invoke("put", a[1], a[2], FALSE,
                   cmd_put(a[1], LocalFiles, paths, a[2], DOMAIN store))

SnapshotDestroy ==
    \E a \in DestroyArgs :
        Invoke("destroy", a[1], a[3], a[2],
               cmd_snapshot_destroy(a[1], a[2], a[3], SNAPSHOT, DOMAIN store))

Ls ==
    \E path \in LsArgs :
        Invoke("ls", path, <<>>, FALSE, cmd_ls(path, DOMAIN store))

Get ==
    \E src \in GetArgs :
        Invoke("get", src, <<>>, FALSE, cmd_get(src, DOMAIN store))

Next == Mkdir \/ Rm \/ Mv \/ Put \/ SnapshotDestroy \/ Ls \/ Get

Spec == Init /\ [][Next]_vars

(***************************************************************************)
(* Properties of the commands, over the invocation recorded in `last`.     *)
(***************************************************************************)
Keys == DOMAIN store
PreKeys == DOMAIN last.pre

\* the operations of all the commits the last invocation issued
RECURSIVE Flatten(_)
Flatten(commits) ==
    IF commits = <<>> THEN <<>> ELSE Head(commits) \o Flatten(Tail(commits))

LastOps == Flatten(last.commits)

WritingOps == {i \in Indices(LastOps) : LastOps[i].op \in {"Add", "Copy"}}
CopyOps == {i \in Indices(LastOps) : LastOps[i].op = "Copy"}

\* the argument as typed ends in "/" (a directory or prefix request)
SlashArg(a) == EndsWith(StripWS(a), <<SL>>)

\* the keys of S under directory d
Under(S, d) == {k \in S : StartsWith(k, d \o <<SL>>)}

\* C1: rm with a path argument that ends in "/" deletes every key of the
\* store that starts with that prefix, and only those keys, whenever at
\* least one key has the prefix.
C1_RmPrefixDeletesSubtree ==
    LET d == normalize_path(last.a1)
    IN  ( /\ last.cmd = "rm"
          /\ ~last.flag
          /\ SlashArg(last.a1)
          /\ ~has_glob(last.a1)
          /\ Under(PreKeys, d) # {} )
        => /\ Keys = PreKeys \ Under(PreKeys, d)
           /\ \A k \in Keys : store[k] = last.pre[k]

\* C2: a single-file mv whose dst argument ends in "/" moves the source to
\* the key dst/<base name of src>: that key exists afterwards with the
\* content of the source, ls dst lists the base name, and no key named
\* exactly dst is created.
C2_MvIntoDirectory ==
    LET src == normalize_path(last.a1)
        dir == normalize_path(last.a2)
        base == PathName(src)
    IN  ( /\ last.cmd = "mv"
          /\ ~SlashArg(last.a1)
          /\ SlashArg(last.a2)
          /\ src \in PreKeys
          /\ dir # <<>>
          /\ J(dir, base) \notin PreKeys )
        => /\ last.exit = 0
           /\ J(dir, base) \in Keys
           /\ store[J(dir, base)] = last.pre[src]
           /\ \E i \in 1..Len(list_children(Keys, dir)) :
                 list_children(Keys, dir)[i] = base
           /\ dir \in Keys => dir \in PreKeys

\* the local files that the local argument of put matches
PutMatched(raw) ==
    IF has_glob(raw) THEN {f \in LocalFiles : fnmatchcase(f, raw)}
    ELSE {raw} \cap LocalFiles

\* C3: put with a dst argument that ends in "/" is accepted for one or for
\* several matched local files and stores each at dst/<basename>, so that
\* ls dst lists it; put with several matched files fails only when dst does
\* not end in "/".
C3_PutIntoDirectory ==
    LET dir == normalize_path(last.a2)
        found == PutMatched(last.a1)
    IN  ( /\ last.cmd = "put"
          /\ SlashArg(last.a2)
          /\ dir # <<>>
          /\ found # {} )
        => /\ last.exit = 0
           /\ \A f \in found :
                 /\ J(dir, f) \in Keys
                 /\ store[J(dir, f)] = LocalContent(f)
                 /\ \E i \in 1..Len(list_children(Keys, dir)) :
                       list_children(Keys, dir)[i] = f

\* C4: a mv run alone never overwrites: every key it writes with Copy or Add
\* was absent from the key set it listed, the keys written in its commit are
\* pairwise distinct, every key present before other than the moved sources
\* is still present with its content, and every source's content is at its
\* destination.  For a single-file move to a dst argument without a trailing
\* "/", a destination that already exists makes the file land at the first
\* free dst__dupN, and the destination printed is the key written.
C4_MvNeverOverwrites ==
    (last.cmd = "mv" /\ last.exit = 0) =>
        LET sources == {LastOps[i].src : i \in CopyOps}
            dst == normalize_path(last.a2)
        IN  /\ Len(last.commits) = 1
            /\ CopyOps # {}
            /\ \A i \in WritingOps : LastOps[i].key \notin PreKeys
            /\ \A i, j \in WritingOps : i # j => LastOps[i].key # LastOps[j].key
            /\ \A k \in PreKeys \ sources : k \in Keys /\ store[k] = last.pre[k]
            /\ \A i \in CopyOps :
                  /\ LastOps[i].src \in PreKeys
                  /\ LastOps[i].src \notin Keys
                  /\ LastOps[i].key \in Keys
                  /\ store[LastOps[i].key] = last.pre[LastOps[i].src]
            /\ (~SlashArg(last.a1) /\ ~SlashArg(last.a2)) =>
                  /\ Cardinality(CopyOps) = 1
                  /\ \A i \in CopyOps : last.paths = <<LastOps[i].key>>
                  /\ dst \in PreKeys =>
                        \E N \in 1..(Cardinality(PreKeys) + 1) :
                            /\ last.paths = <<dst \o DUP \o IntToStr(N)>>
                            /\ \A M \in 1..(N - 1) :
                                  (dst \o DUP \o IntToStr(M)) \in PreKeys

\* a single-file move onto a/c/local.txt, which existed together with its
\* __dup1, landed at a/c/local.txt__dup2
C4_Witness ==
    /\ last.cmd = "mv"
    /\ last.exit = 0
    /\ last.a2 = P_ac_local
    /\ {K_ac_local, K_ac_local_dup1} \subseteq PreKeys
    /\ last.paths = <<K_ac_local \o DUP \o <<"2">>>>
    /\ store[K_ac_local \o DUP \o <<"2">>] = last.pre[K_ab_local]

\* the invocation ended without asking for a change: an error exit, a dry
\* run, or mkdir's "exists"
EndedWithoutChange ==
    \/ last.exit # 0
    \/ last.msg = "exists"
    \/ last.cmd = "rm" /\ last.flag

\* C5: every invocation of a command other than ls and get changes the store
\* through exactly one atomic commit: mkdir, rm, mv, put and snapshot
\* destroy each issue exactly one commit per successful invocation, and an
\* invocation that ends in NotFound, NoMatch, a dry run, "exists" or an
\* aborted confirmation issues none and leaves the key set unchanged.
C5_ExactlyOneCommit ==
    last.cmd \in {"mkdir", "rm", "mv", "put", "destroy"} =>
        IF EndedWithoutChange
        THEN last.commits = <<>> /\ store = last.pre
        ELSE Len(last.commits) = 1

\* whether commit c is the upload of local file f
IsUpload(c, f) ==
    Len(c) = 1 /\ c[1].op = "Add" /\ c[1].content = LocalContent(f)

\* whether commit c only adds a directory marker that the listing lacked
IsMarkerCommit(c) ==
    /\ Len(c) = 1
    /\ c[1].op = "Add"
    /\ c[1].content = <<>>
    /\ EndsWith(c[1].key, <<SL>> \o GITKEEP)
    /\ c[1].key \notin PreKeys

\* C5 as amended: mkdir, rm, mv and snapshot destroy each issue exactly one
\* commit per successful invocation (a subtree move of k files: one commit
\* with k Copy and k Delete operations); a successful put issues one upload
\* per local file, after one separate commit that adds the directory marker
\* of the destination key's parent directory exactly when that directory is
\* not empty and the listing lacked its marker; an invocation that ends in an
\* error, a dry run or "exists" issues none and leaves the store unchanged.
C5_CommitsPerInvocation ==
    /\ (last.cmd \in {"mkdir", "rm", "mv", "put", "destroy"} /\ EndedWithoutChange)
          => last.commits = <<>> /\ store = last.pre
    /\ (last.cmd \in {"mkdir", "rm", "mv", "destroy"} /\ ~EndedWithoutChange)
          => Len(last.commits) = 1
    /\ (last.cmd = "mv" /\ ~EndedWithoutChange /\ SlashArg(last.a1)) =>
          LET k == Cardinality(Under(PreKeys, normalize_path(last.a1)))
          IN  /\ k > 0
              /\ Cardinality(CopyOps) = k
              /\ Cardinality({i \in Indices(LastOps) : LastOps[i].op = "Delete"}) = k
    /\ (last.cmd = "put" /\ ~EndedWithoutChange) =>
          LET found == PutMatched(last.a1)
              n == Len(last.commits)
              dir == normalize_path(parent_dir(normalize_path(last.a2)))
              lacks == dir # <<>> /\ J(dir, GITKEEP) \notin PreKeys
              first == IF lacks THEN 2 ELSE 1
          IN  /\ n = Cardinality(found) + (IF lacks THEN 1 ELSE 0)
              /\ lacks => IsMarkerCommit(last.commits[1])
              /\ \A i \in first..n : \E f \in found : IsUpload(last.commits[i], f)

\* a put of one local file to a/b/local.txt on a store without a/b/.gitkeep
\* issued two commits
C5_Witness ==
    /\ last.cmd = "put"
    /\ last.exit = 0
    /\ last.a2 = P_ab_local
    /\ Len(last.commits) = 2
    /\ K_ab_keep \in Keys \ PreKeys
    /\ store[K_ab_local] = LocalContent(LOCAL_TXT)

\* C6: mkdir is idempotent over sequential invocations: running mkdir d twice
\* (d not empty) leaves exactly one marker key d/.gitkeep, the second
\* invocation reports "exists" and issues no commit.
C6_MkdirIdempotent ==
    LET keep == J(normalize_path(last.a1), GITKEEP)
    IN  ( /\ prev.cmd = "mkdir"
          /\ last.cmd = "mkdir"
          /\ prev.a1 = last.a1
          /\ normalize_path(last.a1) # <<>> )
        => /\ prev.exit = 0
           /\ last.exit = 0
           /\ last.msg = "exists"
           /\ last.commits = <<>>
           /\ store = last.pre
           /\ keep \in Keys
           /\ store[keep] = <<>>
           /\ Keys = DOMAIN prev.pre \cup {keep}
           /\ \A k \in DOMAIN prev.pre : store[k] = prev.pre[k]

\* the RepoKey invariant: no leading "/", no backslash, no "." or ".."
\* segment, no trailing "/"
RepoKey(k) ==
    /\ k # <<>>
    /\ ~StartsWith(k, <<SL>>)
    /\ ~EndsWith(k, <<SL>>)
    /\ ~Contains(k, BS)
    /\ \A i \in 1..Len(Split(k)) : Split(k)[i] \notin {<<DOT>>, <<DOT, DOT>>}

\* C9: every key that a command writes to the store (markers, mv
\* destinations, put destinations) satisfies the RepoKey invariant, for every
\* user-supplied path.
C9_WrittenKeysAreRepoKeys ==
    /\ \A i \in WritingOps : RepoKey(LastOps[i].key)
    /\ \A k \in Keys : RepoKey(k)

\* the keys of S under path p; every key when p is empty
UnderPath(S, p) == IF p = <<>> THEN S ELSE Under(S, p)

\* a child name holds "/" at most as its last character
NoInnerSlash(c) == \A i \in 1..(Len(c) - 1) : c[i] # SL

\* the elements of sequence q
Range(q) == {q[i] : i \in 1..Len(q)}

\* C11: for a key set of valid RepoKeys and a path P, list_children(S, P) has
\* no entry with a "/" anywhere but as its last character, every entry that
\* ends in "/" has at least one key of S under P/<entry>, and a path with no
\* keys under it gives the empty list, which ls reports as "(empty)".
C11_ListChildren ==
    LET p == normalize_path(StripWS(last.a1))
        children == list_children(PreKeys, p)
        full(c) == IF p = <<>> THEN c ELSE J(p, c)
    IN  ( /\ last.cmd = "ls"
          /\ ~has_glob(p)
          /\ \A k \in PreKeys : RepoKey(k) )
        => /\ \A i \in 1..Len(children) :
                 /\ NoInnerSlash(children[i])
                 /\ EndsWith(children[i], <<SL>>) =>
                       \E k \in PreKeys : StartsWith(k, full(children[i]))
           /\ UnderPath(PreKeys, p) = {} =>
                 /\ children = <<>>
                 /\ last.msg = "(empty)"
                 /\ last.paths = <<>>

\* C12: after the only file other than the marker is moved out of a
\* directory that holds its .gitkeep marker, ls of that directory reports
\* "(empty)".
C12_LsAfterMoveOut ==
    LET src == normalize_path(prev.a1)
        d == parent_dir(src)
    IN  ( /\ prev.cmd = "mv"
          /\ prev.exit = 0
          /\ ~SlashArg(prev.a1)
          /\ d # <<>>
          /\ Under(DOMAIN prev.pre, d) = {J(d, GITKEEP), src}
          /\ ~StartsWith(prev.paths[1], d \o <<SL>>)
          /\ last.cmd = "ls"
          /\ normalize_path(last.a1) = d )
        => /\ last.msg = "(empty)"
           /\ last.paths = <<>>

\* C13: destructive operations are gated: rm with a glob pattern or a prefix
\* (which has neither an acknowledgment flag nor a prompt) and snapshot
\* destroy without -y and without the confirmation DELETE delete nothing and
\* end as a reported abort.
C13_DestructiveGated ==
    /\ ( /\ last.cmd = "rm"
         /\ ~last.flag
         /\ has_glob(normalize_path(last.a1)) \/ SlashArg(last.a1) )
       => /\ store = last.pre
          /\ last.exit # 0
    /\ ( /\ last.cmd = "destroy"
         /\ ~last.flag
         /\ last.a2 # DELETE )
       => /\ store = last.pre
          /\ last.exit # 0

\* C14: snapshot destroy <id> without -y and with a confirmation other than
\* DELETE exits 1 and issues no commit; with -y or with the confirmation
\* DELETE it deletes, in one commit, exactly the keys under the snapshot
\* namespace that start with "<id>."; when no key matches it exits 1 and
\* deletes nothing.
C14_SnapshotDestroy ==
    LET targets == {k \in PreKeys : StartsWith(k, J(SNAPSHOT, last.a1) \o <<DOT>>)}
        confirmed == last.flag \/ last.a2 = DELETE
    IN  (last.cmd = "destroy" /\ last.a1 # <<>>) =>
           /\ (targets # {} /\ ~confirmed) =>
                 /\ last.exit = 1
                 /\ last.commits = <<>>
                 /\ store = last.pre
           /\ (targets # {} /\ confirmed) =>
                 /\ last.exit = 0
                 /\ Len(last.commits) = 1
                 /\ Keys = PreKeys \ targets
                 /\ \A k \in Keys : store[k] = last.pre[k]
           /\ targets = {} =>
                 /\ last.exit = 1
                 /\ last.commits = <<>>
                 /\ store = last.pre

\* C19: rm --dry-run issues no commit and leaves the store unchanged, and the
\* targets it prints are exactly the keys that the same rm without --dry-run
\* deletes from the same key set.
C19_RmDryRun ==
    /\ (last.cmd = "rm" /\ last.flag) =>
          /\ last.commits = <<>>
          /\ store = last.pre
    /\ ( /\ prev.cmd = "rm"
         /\ prev.flag
         /\ last.cmd = "rm"
         /\ ~last.flag
         /\ normalize_path(last.a1) = normalize_path(prev.a1) )
       => /\ (prev.exit = 0) <=> (last.exit = 0)
          /\ prev.exit # 0 => prev.paths = <<>>
          /\ last.exit = 0 =>
                /\ Range(prev.paths) = PreKeys \ Keys
                /\ Len(prev.paths) = Cardinality(Range(prev.paths))

\* a dry run of rm "a/*" printed several keys, and the rm "a/*" that followed
\* deleted exactly those
C19_Witness ==
    /\ prev.cmd = "rm"
    /\ prev.flag
    /\ prev.a1 = P_a_star
    /\ Len(prev.paths) >= 2
    /\ last.cmd = "rm"
    /\ ~last.flag
    /\ last.a1 = P_a_star
    /\ last.exit = 0
    /\ Range(prev.paths) = PreKeys \ Keys

\* C20: in glob matching "*" spans "/" and matches names that begin with ".",
\* so rm "a/*" deletes every key that starts with "a/" (nested keys and
\* .gitkeep markers included), leaves every other key unchanged, and a
\* following ls "a" reports "(empty)".
C20_RmGlobStar ==
    /\ ( /\ last.cmd = "rm"
         /\ ~last.flag
         /\ last.a1 = P_a_star
         /\ Under(PreKeys, W_a) # {} )
       => /\ last.exit = 0
          /\ Keys = PreKeys \ Under(PreKeys, W_a)
          /\ \A k \in Keys : store[k] = last.pre[k]
    /\ ( /\ prev.cmd = "rm"
         /\ ~prev.flag
         /\ prev.a1 = P_a_star
         /\ prev.exit = 0
         /\ last.cmd = "ls"
         /\ last.a1 = P_a )
       => /\ last.msg = "(empty)"
          /\ last.paths = <<>>

\* rm "a/*" deleted a marker and a nested key, and the ls "a" that followed
\* reported "(empty)"
C20_Witness ==
    /\ prev.cmd = "rm"
    /\ ~prev.flag
    /\ prev.a1 = P_a_star
    /\ prev.exit = 0
    /\ {K_ab_keep, K_ab_sub_deep} \subseteq DOMAIN prev.pre
    /\ last.cmd = "ls"
    /\ last.a1 = P_a
    /\ last.msg = "(empty)"
    /\ Keys = {}

\* the keys that the Add operations of the last invocation wrote
AddedKeys == {LastOps[i].key : i \in {j \in Indices(LastOps) : LastOps[j].op = "Add"}}

\* C21: a successful subtree move src/ -> dst/, with dst not under src and
\* no key under dst/ before the move, preserves structure: every key
\* src/<rel>, markers included, ends at exactly dst/<rel> with its content,
\* no key remains under src/, the keys under dst/ afterwards are the moved
\* keys and the markers added for new destination directories and nothing
\* else, and each marker is added at most once.
C21_SubtreeMovePreservesStructure ==
    LET src == normalize_path(StripWS(last.a1))
        dst == normalize_path(StripWS(last.a2))
        moved == Under(PreKeys, src)
        target(k) == dst \o DropFirst(k, Len(src))
        adds == {i \in Indices(LastOps) : LastOps[i].op = "Add"}
    IN  ( /\ last.cmd = "mv"
          /\ last.exit = 0
          /\ SlashArg(last.a1)
          /\ ~StartsWith(dst \o <<SL>>, src \o <<SL>>)
          /\ Under(PreKeys, dst) = {} )
        => /\ \A k \in moved :
                /\ target(k) \in Keys
                /\ store[target(k)] = last.pre[k]
           /\ Under(Keys, src) = {}
           /\ Under(Keys, dst) = {target(k) : k \in moved} \cup AddedKeys
           /\ Cardinality(Under(Keys, dst))
                  = Cardinality(moved) + Cardinality(adds)
           /\ \A i, j \in adds : LastOps[i].key = LastOps[j].key => i = j

(***************************************************************************)
(* SpecNorm:normalize_path on every string of up to MaxLen characters.    *)
(***************************************************************************)
NormAlphabet == {SL, BS, WS, DOT, "a"}

NormInputs == UNION {[1..n -> NormAlphabet] : n \in 0..MaxLen}

InitNorm ==
    /\ fnArg \in NormInputs
    /\ fnRet = <<>>
    /\ fnDone = FALSE
    /\ store = EmptyStore
    /\ last = NoCmd
    /\ prev = NoCmd
    /\ ncmds = 0
    /\ now = 0
    /\ created = <<>>
    /\ proc = <<>>
    /\ nExt = 0

CallNormalize ==
    /\ ~fnDone
    /\ fnRet' = normalize_path(fnArg)
    /\ fnDone' = TRUE
    /\ UNCHANGED <<fnArg, store, last, prev, ncmds, now, created, proc, nExt>>

NextNorm == CallNormalize

SpecNorm == InitNorm /\ [][NextNorm]_vars

\* C7: normalize is idempotent: normalize(normalize(x)) = normalize(x).
C7_NormalizeIdempotent ==
    fnDone => normalize_path(fnRet) = fnRet

\* C8: normalize never returns a string that starts with '/', ends with '/',
\* or contains a backslash.
C8_NormalizeShape ==
    fnDone =>
        /\ ~StartsWith(fnRet, <<SL>>)
        /\ ~EndsWith(fnRet, <<SL>>)
        /\ ~Contains(fnRet, BS)

\* an input with a leading slash, a backslash and a trailing slash was normalized
C8_Witness ==
    /\ fnDone
    /\ StartsWith(fnArg, <<SL>>)
    /\ EndsWith(fnArg, <<SL>>)
    /\ Contains(fnArg, BS)
    /\ fnRet # <<>>

(***************************************************************************)
(* SpecUnique: unique_dest on a desired key and a key set that holds any   *)
(* of the desired key, its first MaxDup __dupN candidates and other keys;  *)
(* with `nine` the candidates __dup1 .. __dup9 are all taken.              *)
(***************************************************************************)
DupKey(d, n) == d \o DUP \o IntToStr(n)

UniqueDests == {P_ab, DupKey(P_ab, 1)}

UniqueKeys ==
    {P_ab, P_ac, DupKey(DupKey(P_ab, 1), 1)} \cup {DupKey(P_ab, n) : n \in 1..MaxDup}

NineDups == {DupKey(P_ab, n) : n \in 1..9}

InitUnique ==
    /\ \E d \in UniqueDests, S \in SUBSET (UniqueKeys \cup {DupKey(P_ab, 10)}),
          nine \in BOOLEAN :
            fnArg = [dest |-> d, existing |-> IF nine THEN S \cup NineDups ELSE S]
    /\ fnRet = <<>>
    /\ fnDone = FALSE
    /\ store = EmptyStore
    /\ last = NoCmd
    /\ prev = NoCmd
    /\ ncmds = 0
    /\ now = 0
    /\ created = <<>>
    /\ proc = <<>>
    /\ nExt = 0

CallUniqueDest ==
    /\ ~fnDone
    /\ fnRet' = unique_dest(fnArg.dest, fnArg.existing)
    /\ fnDone' = TRUE
    /\ UNCHANGED <<fnArg, store, last, prev, ncmds, now, created, proc, nExt>>

NextUnique == CallUniqueDest

SpecUnique == InitUnique /\ [][NextUnique]_vars

\* C10: uniqueDestination(d, S) is not in S; it is d when d is not in S;
\* otherwise it is d followed by "__dup" and the smallest N >= 1 for which
\* d__dupN is not in S.
C10_UniqueDest ==
    fnDone =>
        LET d == fnArg.dest
            S == fnArg.existing
        IN  /\ fnRet \notin S
            /\ d \notin S => fnRet = d
            /\ d \in S =>
                 \E N \in 1..(Cardinality(S) + 1) :
                    /\ fnRet = d \o DUP \o IntToStr(N)
                    /\ \A M \in 1..(N - 1) : (d \o DUP \o IntToStr(M)) \in S

\* the desired key and its candidates __dup1 .. __dup10 were all taken, and
\* the result is __dup11
C10_Witness ==
    /\ fnDone
    /\ fnArg.dest = P_ab
    /\ fnArg.dest \in fnArg.existing
    /\ fnRet = P_ab \o DUP \o <<"1", "1">>

(***************************************************************************)
(* SpecSnapId: snap_id_from_name on every name of up to MaxLen characters  *)
(* of NameAlphabet, on "My Set!" and on a name longer than SLUG_MAX, at    *)
(* every clock second up to MaxClock.                                      *)
(***************************************************************************)
NameAlphabet == {"a", "7", WS, "!", DOT, "-"}

MY_SET == <<"M", "y", " ", "S", "e", "t", "!">>

LongName == [i \in 1..(SLUG_MAX + 10) |-> "a"]

NameInputs == UNION {[1..n -> NameAlphabet] : n \in 1..MaxLen} \cup {MY_SET, LongName}

InitSnapId ==
    /\ \E name \in NameInputs, t \in 0..MaxClock : fnArg = [name |-> name, t |-> t]
    /\ fnRet = <<>>
    /\ fnDone = FALSE
    /\ store = EmptyStore
    /\ last = NoCmd
    /\ prev = NoCmd
    /\ ncmds = 0
    /\ now = 0
    /\ created = <<>>
    /\ proc = <<>>
    /\ nExt = 0

CallSnapId ==
    /\ ~fnDone
    /\ fnRet' = snap_id_from_name(fnArg.name, fnArg.t)
    /\ fnDone' = TRUE
    /\ UNCHANGED <<fnArg, store, last, prev, ncmds, now, created, proc, nExt>>

NextSnapId == CallSnapId

SpecSnapId == InitSnapId /\ [][NextSnapId]_vars

\* the slug as specified: every character outside [A-Za-z0-9._-] replaced
\* by "_", truncated to 120 characters, "snapshot" when empty
SlugAsSpecified(name) ==
    LET mapped == [i \in 1..Len(name) |->
                      IF \/ Ord("0") <= Ord(name[i]) /\ Ord(name[i]) <= Ord("9")
                         \/ Ord("A") <= Ord(name[i]) /\ Ord(name[i]) <= Ord("Z")
                         \/ Ord("a") <= Ord(name[i]) /\ Ord(name[i]) <= Ord("z")
                         \/ name[i] \in {".", "_", "-"}
                      THEN name[i] ELSE "_"]
    IN  IF mapped = <<>> THEN DEFAULT_SLUG
        ELSE SubSeq(mapped, 1, IF Len(mapped) < 120 THEN Len(mapped) ELSE 120)

IsDigit(c) == \E i \in 1..10 : Digits[i] = c

\* C17: the snapshot id of a name is the timestamp YYYYMMDD_HHMMSS, then
\* "__", then the slug: every character of the name outside [A-Za-z0-9._-]
\* replaced by "_", truncated to 120 characters, "snapshot" when empty; for
\* the name "My Set!" the id matches ^\d{8}_\d{6}__My_Set_$.
C17_SnapshotId ==
    fnDone =>
        /\ Len(fnRet) >= 17
        /\ \A i \in (1..8) \cup (10..15) : IsDigit(fnRet[i])
        /\ fnRet[9] = "_"
        /\ SubSeq(fnRet, 16, 17) = <<"_", "_">>
        /\ DropFirst(fnRet, 17) = SlugAsSpecified(fnArg.name)
        /\ fnArg.name = MY_SET =>
              DropFirst(fnRet, 17) = <<"M", "y", "_", "S", "e", "t", "_">>

(***************************************************************************)
(* SpecSnap: up to MaxSnapCmds invocations of snapshot create, list, show  *)
(* and get on a store that starts empty, while the clock advances up to    *)
(* second MaxClock.                                                        *)
(***************************************************************************)
NAME_a == <<"a">>
NAME_b == <<"b">>

\* snapshot create --name <name> [--compress gz|none] <items>
CreateArgs ==
    { <<NAME_b, "i1", "gz">>, <<NAME_b, "i2", "gz">>, <<NAME_b, "i2", "none">>,
      <<NAME_a, "i1", "gz">> }

\* the ids given to show and get: those that create printed, and one that
\* was never created
SnapIds == {created[i].id : i \in 1..Len(created)} \cup {ID_S2}

InitSnap ==
    /\ store = EmptyStore
    /\ last = NoCmd
    /\ prev = NoCmd
    /\ ncmds = 0
    /\ now = 0
    /\ created = <<>>
    /\ proc = <<>>
    /\ nExt = 0
    /\ fnArg = <<>>
    /\ fnRet = <<>>
    /\ fnDone = FALSE

SnapInvoke(cmd, a1, a2, flag, out) ==
    /\ ncmds < MaxSnapCmds
    /\ RunCmd(cmd, a1, a2, flag, out)

SnapshotCreate ==
    \E a \in CreateArgs :
        SnapInvoke("create", a[1], a[2], a[3] = "gz",
                   cmd_snapshot_create(a[1], a[2], a[3], SNAPSHOT, now))

SnapshotList ==
    SnapInvoke("list", <<>>, <<>>, FALSE, cmd_snapshot_list(SNAPSHOT, DOMAIN store))

SnapshotShow ==
    \E id \in SnapIds :
        SnapInvoke("show", id, <<>>, FALSE, cmd_snapshot_show(id, SNAPSHOT, store))

SnapshotGet ==
    \E id \in SnapIds :
        SnapInvoke("snapget", id, <<>>, FALSE, cmd_snapshot_get(id, SNAPSHOT, store))

\* the clock reaches the next second
Tick ==
    /\ now < MaxClock
    /\ now' = now + 1
    /\ UNCHANGED <<store, last, prev, ncmds, created, fnArg, fnRet, fnDone, proc, nExt>>

NextSnap == SnapshotCreate \/ SnapshotList \/ SnapshotShow \/ SnapshotGet \/ Tick

SpecSnap == InitSnap /\ [][NextSnap]_vars

\* the snapshots created before the last invocation
CreatedBefore ==
    IF last.cmd = "create" /\ last.exit = 0
    THEN SubSeq(created, 1, Len(created) - 1)
    ELSE created

ManifestKey(id) == J(SNAPSHOT, id \o MANIFEST_JSON)

\* the archive keys of snapshot id among the keys S
ArchiveKeys(S, id) == {k \in S : k \in {J(SNAPSHOT, id \o TAR), J(SNAPSHOT, id \o TAR_GZ)}}

\* C15: a snapshot is immutable once created: no later snapshot create,
\* show, list or get changes the content of its manifest or of its archive,
\* or adds another archive key for its id, also when two creates with the
\* same name fall into the same clock second.
C15_SnapshotImmutable ==
    last.cmd \in {"create", "list", "show", "snapget"} =>
        \A i \in 1..Len(CreatedBefore) :
            LET id == CreatedBefore[i].id
            IN  /\ ManifestKey(id) \in PreKeys
                /\ ManifestKey(id) \in Keys
                /\ store[ManifestKey(id)] = last.pre[ManifestKey(id)]
                /\ ArchiveKeys(Keys, id) = ArchiveKeys(PreKeys, id)
                /\ \A k \in ArchiveKeys(PreKeys, id) : store[k] = last.pre[k]

\* C16: snapshot round trip: for every create that printed id, a later get
\* of id resolves the archive through the basename recorded in the manifest
\* of id and extracts the content of the items given to that create.
C16_SnapshotRoundTrip ==
    last.cmd = "snapget" =>
        \A i \in 1..Len(created) :
            created[i].id = last.a1 =>
                /\ last.exit = 0
                /\ last.paths[1] = J(SNAPSHOT, TarBasename(store[ManifestKey(last.a1)]))
                /\ last.paths[2] = created[i].items

\* the place of id in the list that was printed, 0 when it is not there
PlaceOf(id, q) ==
    IF \E i \in 1..Len(q) : q[i] = id
    THEN CHOOSE i \in 1..Len(q) : q[i] = id
    ELSE 0

\* C18: snapshot list prints the ids of all manifests newest first: of two
\* snapshots the one created later is never printed after the one created
\* earlier, also when both are created in the same clock second.
C18_ListNewestFirst ==
    last.cmd = "list" =>
        /\ {last.paths[i] : i \in 1..Len(last.paths)} = {created[i].id : i \in 1..Len(created)}
        /\ \A i, j \in 1..Len(created) :
              (i < j /\ created[i].id # created[j].id /\
               ~\E k \in (j + 1)..Len(created) : created[k].id = created[i].id) =>
                  PlaceOf(created[j].id, last.paths) < PlaceOf(created[i].id, last.paths)

(***************************************************************************)
(* SpecSnapD: the life of snapshots: up to MaxSnapCmds invocations of      *)
(* snapshot create, destroy, list, show and get, where a create may stop   *)
(* between its two uploads, and the clock may tick between invocations.    *)
(***************************************************************************)
\* snapshot create --name <name> [--compress gz|none] <items>, with the
\* names a, b and b.tar
LifeCreateArgs ==
    { <<NAME_b, "i1", "gz">>, <<NAME_b \o TAR, "i2", "gz">>, <<NAME_a, "i1", "none">> }

LifeCreate ==
    \E a \in LifeCreateArgs :
        SnapInvoke("create", a[1], a[2], a[3] = "gz",
                   cmd_snapshot_create(a[1], a[2], a[3], SNAPSHOT, now))

\* a create whose second upload fails, or that is stopped after the first:
\* only the archive was uploaded
LifeCreateStopped ==
    \E a \in LifeCreateArgs :
        LET out == cmd_snapshot_create(a[1], a[2], a[3], SNAPSHOT, now)
        IN  SnapInvoke("create", a[1], a[2], a[3] = "gz",
                       Outcome(<<out.commits[1]>>, 1,
                               "snapshot create: upload failed", <<>>, 0))

\* snapshot destroy <id> with -y, or without it and "no" typed at the prompt
LifeDestroy ==
    \E id \in SnapIds, yes \in BOOLEAN :
        SnapInvoke("destroy", id, <<"n", "o">>, yes,
                   cmd_snapshot_destroy(id, yes, <<"n", "o">>, SNAPSHOT, DOMAIN store))

NextSnapD ==
    \/ LifeCreate
    \/ LifeCreateStopped
    \/ LifeDestroy
    \/ SnapshotList
    \/ SnapshotShow
    \/ SnapshotGet
    \/ Tick

SpecSnapD == InitSnap /\ [][NextSnapD]_vars

\* the ids of the snapshots whose manifest is among the keys of st
PresentIds(st) ==
    {id \in {created[i].id : i \in 1..Len(created)} : ManifestKey(id) \in DOMAIN st}

\* C22: snapshot destroy <id> deletes only keys of the snapshot whose id is
\* exactly <id>: for any two distinct snapshot ids A and B present in the
\* store, B = A followed by "." and more slug characters included, a
\* successful destroy A leaves the manifest and the archive of B in place.
C22_DestroyOnlyThatSnapshot ==
    (last.cmd = "destroy" /\ last.exit = 0 /\ last.a1 \in PresentIds(last.pre)) =>
        \A B \in PresentIds(last.pre) \ {last.a1} :
            /\ ManifestKey(B) \in Keys
            /\ store[ManifestKey(B)] = last.pre[ManifestKey(B)]
            /\ ArchiveKeys(Keys, B) = ArchiveKeys(PreKeys, B)
            /\ \A k \in ArchiveKeys(PreKeys, B) : store[k] = last.pre[k]

\* the manifest keys among the keys of the store
ManifestKeys ==
    {k \in Keys : StartsWith(k, SNAPSHOT \o <<SL>>) /\ EndsWith(k, MANIFEST_JSON)}

\* C23: in every state reachable by snapshot create, list, show, get and
\* destroy, a create that stops between its two uploads included, a manifest
\* key that is present names an archive basename whose key is also present:
\* there is never a manifest without its archive.
C23_NoManifestWithoutArchive ==
    \A k \in ManifestKeys : J(SNAPSHOT, TarBasename(store[k])) \in Keys

(***************************************************************************)
(* SpecRace: two mv invocations run at the same time, while another client *)
(* of the store makes up to MaxExternal mutations.  An invocation lists    *)
(* the store and plans its commit in one step (MvList) and issues the      *)
(* commit in a later step (MvCommit); the steps of the two invocations and *)
(* of the other client interleave freely.                                  *)
(***************************************************************************)
Procs == {1, 2}

\* mv <src> <dst>
RaceMvArgs ==
    { <<P_ab_local, P_zz>>, <<P_ac_local, P_zz>>, <<P_ab_local, P_ac_local>>,
      <<P_zz, P_ac>> }

InitRace ==
    /\ store \in InitStores
    /\ proc = [p \in Procs |->
                  [pc |-> "idle", a1 |-> <<>>, a2 |-> <<>>, files |-> {},
                   out |-> die("", 0), pre |-> EmptyStore, post |-> EmptyStore,
                   ok |-> FALSE, tries |-> 0]]
    /\ nExt = 0
    /\ last = NoCmd
    /\ prev = NoCmd
    /\ ncmds = 0
    /\ now = 0
    /\ created = <<>>
    /\ fnArg = <<>>
    /\ fnRet = <<>>
    /\ fnDone = FALSE

\* cmd_mv up to its create_commit: list_files, then the plan made from that
\* listing; an invocation that dies ends here
MvList(p) ==
    /\ proc[p].pc = "idle"
    /\ \E a \in RaceMvArgs :
          LET out == cmd_mv(a[1], a[2], DOMAIN store)
          IN  proc' = [proc EXCEPT ![p] =
                          [@ EXCEPT !.pc = IF out.commits = <<>> THEN "done" ELSE "listed",
                                    !.a1 = a[1], !.a2 = a[2],
                                    !.files = DOMAIN store, !.out = out,
                                    !.pre = store, !.post = store]]
    /\ UNCHANGED <<store, last, prev, ncmds, fnArg, fnRet, fnDone, now, created, nExt>>

\* the create_commit of cmd_mv and what follows it: the planned operations
\* go to the backend as they are; a rejection ends the invocation with exit 1
MvCommit(p) ==
    /\ proc[p].pc = "listed"
    /\ LET out == proc[p].out
           ops == out.commits[1]
           ok == CommitValid(store, ops)
           post == create_commit(store, ops)
       IN  /\ store' = post
           /\ proc' = [proc EXCEPT ![p] =
                          [@ EXCEPT !.pc = "done", !.pre = store, !.post = post,
                                    !.ok = ok, !.tries = @ + 1]]
           /\ last' = [cmd |-> "mv", a1 |-> proc[p].a1, a2 |-> proc[p].a2,
                       flag |-> FALSE, pre |-> store, commits |-> out.commits,
                       exit |-> IF ok THEN out.exit ELSE 1,
                       msg |-> IF ok THEN out.msg ELSE "failed",
                       paths |-> IF ok THEN out.paths ELSE <<>>,
                       n |-> out.n]
    /\ prev' = last
    /\ ncmds' = ncmds + 1
    /\ UNCHANGED <<fnArg, fnRet, fnDone, now, created, nExt>>

\* another client of the store deletes a key or writes the key zz
External ==
    /\ nExt < MaxExternal
    /\ \/ \E k \in DOMAIN store : store' = [j \in DOMAIN store \ {k} |-> store[j]]
       \/ store' = [j \in DOMAIN store \cup {P_zz} |->
                       IF j = P_zz THEN R("9") ELSE store[j]]
    /\ nExt' = nExt + 1
    /\ UNCHANGED <<proc, last, prev, ncmds, fnArg, fnRet, fnDone, now, created>>

NextRace == (\E p \in Procs : MvList(p) \/ MvCommit(p)) \/ External

SpecRace == InitRace /\ [][NextRace]_vars

\* the operations that invocation p planned
PlannedOps(p) == proc[p].out.commits[1]

\* the keys that the operations ops read: copied from or deleted
ReadKeys(ops) ==
    {ops[i].src : i \in {j \in Indices(ops) : ops[j].op = "Copy"}} \cup DeletedKeys(ops)

\* C24: between the listing and the commit of an mv there is a window: the
\* invocation commits the operations it planned from its own listing, at
\* most once, without listing again or retrying; the commit is rejected
\* exactly when a key it copies from or deletes has vanished, and then it
\* applies none of its operations and the invocation exits 1; otherwise it
\* applies all of them, also onto a destination that has come to exist
\* since the listing.
C24_CheckThenCommit ==
    \A p \in Procs :
        (proc[p].pc = "done" /\ proc[p].out.commits # <<>>) =>
            LET ops == PlannedOps(p)
                pre == proc[p].pre
                post == proc[p].post
            IN  /\ proc[p].out = cmd_mv(proc[p].a1, proc[p].a2, proc[p].files)
                /\ proc[p].tries = 1
                /\ proc[p].ok <=> ReadKeys(ops) \subseteq DOMAIN pre
                /\ ~proc[p].ok => post = pre
                /\ proc[p].ok =>
                      /\ DOMAIN post = (DOMAIN pre \ DeletedKeys(ops)) \cup WrittenKeys(ops)
                      /\ \A i \in Indices(ops) :
                            /\ ops[i].op = "Copy" => post[ops[i].key] = pre[ops[i].src]
                            /\ ops[i].op = "Add" => post[ops[i].key] = ops[i].content
                      /\ \A k \in DOMAIN post \ WrittenKeys(ops) : post[k] = pre[k]

\* both races have happened: the commit of one invocation has landed on a
\* destination that its listing showed free and that existed by then, and
\* the commit of the other was rejected because its source had vanished
C24_Witness ==
    \E p, q \in Procs :
        /\ proc[p].pc = "done"
        /\ proc[p].out.commits # <<>>
        /\ proc[p].ok
        /\ proc[p].out.paths[1] \notin proc[p].files
        /\ proc[p].out.paths[1] \in DOMAIN proc[p].pre
        /\ proc[q].pc = "done"
        /\ proc[q].out.commits # <<>>
        /\ ~proc[q].ok
        /\ normalize_path(proc[q].a1) \in proc[q].files
        /\ normalize_path(proc[q].a1) \notin DOMAIN proc[q].pre

====
